---- MODULE Spec2Model ----
(***************************************************************************)
(* Frame scheduler of src/1.hello-triangle/1.hello-triangle.cpp: the CPU   *)
(* thread of HelloTriangleApp (createSwapchain, createSyncObjects,         *)
(* mainLoop, drawFrame, cleanup, main) running against the graphics queue, *)
(* the present queue and the presentation engine, which execute            *)
(* asynchronously the operations the CPU hands to the driver.              *)
(***************************************************************************)
EXTENDS Integers, Sequences, FiniteSets, TLC

\* ---------------------------------------------------------------- constants
MAX_FRAMES_IN_FLIGHT == 2

\* ------------------------------------------------------------------- bounds
\* largest minImageCount a surface reports
MaxMinImageCount == 2
\* largest number of images a swapchain is created with
MaxImages == 3
\* drawFrame iterations explored before the window closes
MaxFrames == 3
\* drawFrame iterations of the end-to-end scenario
ScenarioFrames == 10
\* drawFrame iterations explored after a start-up with arbitrary inputs
StartupFrames == 1
\* longest list of layer or extension names
MaxNames == 2
\* most physical devices the instance enumerates
MaxDevices == 2
\* most queue families of a physical device
MaxQueueFamilies == 2
\* longest list of surface formats or of present modes
MaxListed == 2

\* ------------------------------------------------------------------ helpers
Slots == 0 .. (MAX_FRAMES_IN_FLIGHT - 1)

NoImage == -1
NoFrame == -1

VK_SUCCESS == "VK_SUCCESS"
VK_ERROR == "VK_ERROR"

Min(a, b) == IF a < b THEN a ELSE b

\* capability reports a surface may give: minImageCount >= 1, and
\* maxImageCount either 0 (no limit) or at least minImageCount
SurfaceCapabilities ==
  { c \in [minImageCount : 1 .. MaxMinImageCount, maxImageCount : 0 .. MaxImages] :
      c.maxImageCount = 0 \/ c.maxImageCount >= c.minImageCount }

\* createSwapchain: minImageCount + 1, not above a non-zero maxImageCount
RequestedImageCount_NoClamp(caps) == caps.minImageCount + 1
RequestedImageCount(caps) ==
  IF caps.maxImageCount > 0
    THEN Min(caps.minImageCount + 1, caps.maxImageCount)
    ELSE caps.minImageCount + 1

\* numbers of images vkCreateSwapchainKHR may create for a request: at least
\* the requested count, at most maxImageCount when that is not 0
CreatedImageCounts(caps) ==
  { k \in RequestedImageCount(caps) .. MaxImages :
      caps.maxImageCount = 0 \/ k <= caps.maxImageCount }

\* m_currentFrame = (m_currentFrame + 1) % MAX_FRAMES_IN_FLIGHT
NextFrame_Saturating(c) == IF c + 1 < MAX_FRAMES_IN_FLIGHT THEN c + 1 ELSE c
NextFrame(c) == (c + 1) % MAX_FRAMES_IN_FLIGHT

\* vkWaitForFences(..., &m_inFlightFences[m_currentFrame], ...)
FenceToWait_OtherSlot(c) == (c + 1) % MAX_FRAMES_IN_FLIGHT
FenceToWait(c) == c
\* vkResetFences(..., &m_inFlightFences[m_currentFrame])
FenceToReset(c) == c
\* semaphore argument of vkAcquireNextImageKHR:
\* m_imageAvailableSemaphores[m_currentFrame]
AcquireSemaphore(c) == c

\* a call of drawFrame with the slots whose sync objects it was given
Step(call, slots) == [call |-> call, slots |-> slots]

\* whether vkWaitForFences may return for a fence in the given state
\* (waitAll, timeout UINT64_MAX: only once the fence is signalled)
FenceWaitReturns_NoWait(signalled) == TRUE
FenceWaitReturns(signalled) == signalled

\* submitInfo.pCommandBuffers = &m_commandBuffers[imageIndex]
SubmittedCommandBuffer_FrameSlot(idx, c) == c
SubmittedCommandBuffer(idx, c) == idx

\* presentInfo.pImageIndices = &imageIndex
PresentedImageIndex(idx, c) == idx

\* submitInfo.pWaitSemaphores = &m_imageAvailableSemaphores[m_currentFrame]
SubmitWaitSemaphore(c) == c
\* submitInfo.pSignalSemaphores = &m_renderFinishedSemaphores[m_currentFrame]
SubmitSignalSemaphore(c) == c
\* fence argument of vkQueueSubmit: m_inFlightFences[m_currentFrame]
SubmitFence_OtherSlot(c) == (c + 1) % MAX_FRAMES_IN_FLIGHT
SubmitFence(c) == c
\* presentInfo.pWaitSemaphores = &m_renderFinishedSemaphores[m_currentFrame]
PresentWaitSemaphore_OtherSlot(c) == (c + 1) % MAX_FRAMES_IN_FLIGHT
PresentWaitSemaphore(c) == c

\* ------------------------------------------------- names, lists and handles
\* all sequences over S of length at most n
SeqsUpTo(S, n) == UNION { [1 .. k -> S] : k \in 0 .. n }

NoException == << >>

\* VK_NULL_HANDLE; the handle of the i-th enumerated device is i
NullHandle == 0
\* a member that was never written (HelloTriangleApp has no constructor)
Uninitialized == -1
\* a non-null value that is no handle of any device
GarbageHandle == -2

VK_LAYER_KHRONOS_validation == "VK_LAYER_KHRONOS_validation"
VK_EXT_DEBUG_UTILS_EXTENSION_NAME == "VK_EXT_debug_utils"
VK_KHR_SWAPCHAIN_EXTENSION_NAME == "VK_KHR_swapchain"

\* layer names an instance may report
LayerNames == { VK_LAYER_KHRONOS_validation, "vk_layer_khronos_validation" }
\* extension names an instance may report or GLFW may require
ExtensionNames == { "VK_KHR_surface", "vk_khr_surface", VK_EXT_DEBUG_UTILS_EXTENSION_NAME }

\* strcmp(a, b) == 0
StrCmpEqual_IgnoreCase(a, b) ==
  \/ a = b
  \/ {a, b} = {"VK_KHR_surface", "vk_khr_surface"}
  \/ {a, b} = {VK_LAYER_KHRONOS_validation, "vk_layer_khronos_validation"}
StrCmpEqual(a, b) == a = b

\* the inner loop of getUnsupportedExtensions / getUnsupportedLayers:
\* for (j = 0; j < available.size(); ++j) if (strcmp(..) == 0) { found; break; }
RECURSIVE FoundFrom(_, _, _)
FoundFrom(name, available, j) ==
  IF j > Len(available) THEN FALSE
  ELSE IF StrCmpEqual(name, available[j]) THEN TRUE
  ELSE FoundFrom(name, available, j + 1)

\* the outer loop: for (i = 0; i < required.size(); ++i) ... push_back
RECURSIVE UnsupportedFrom(_, _, _, _)
UnsupportedFrom(available, required, i, unsupported) ==
  IF i > Len(required) THEN unsupported
  ELSE UnsupportedFrom(available, required, i + 1,
         IF FoundFrom(required[i], available, 1)
           THEN unsupported
           ELSE Append(unsupported, required[i]))

\* getUnsupportedExtensions(availableExtensions, requiredExtensions)
GetUnsupportedExtensions(available, required) ==
  UnsupportedFrom(available, required, 1, << >>)

\* getUnsupportedLayers(availableLayers, requiredLayers)
GetUnsupportedLayers_FirstOnly(available, required) ==
  LET all == UnsupportedFrom(available, required, 1, << >>)
  IN  IF all = << >> THEN all ELSE << all[1] >>
GetUnsupportedLayers(available, required) ==
  UnsupportedFrom(available, required, 1, << >>)

\* getRequiredLayers()
GetRequiredLayers(validation) ==
  IF validation THEN << VK_LAYER_KHRONOS_validation >> ELSE << >>

\* getRequiredExtensions(): what GLFW asks for, then the debug extension
GetRequiredExtensions(glfwExtensions, validation) ==
  IF validation
    THEN Append(glfwExtensions, VK_EXT_DEBUG_UTILS_EXTENSION_NAME)
    ELSE glfwExtensions

\* checkLayerSupport / checkExtensionSupport: if (unsupported.size() > 0) throw
SupportCheckThrows_Never(unsupported) == FALSE
SupportCheckThrows(unsupported) == Len(unsupported) > 0

\* -------------------------------------------------------------------- state
VARIABLES
  pc,                \* position of the CPU thread
  scenario,          \* TRUE in the end-to-end scenario (N = 2, K = 3, 10 frames)
  capabilities,      \* swapchainDetails.capabilities read by createSwapchain
  swapchainImages,   \* state of each image of m_swapchainImages (K = its length)
  m_currentFrame,    \* frame cursor
  imageIndex,        \* local imageIndex of drawFrame
  acquired,          \* index written by this iteration's acquire, or NoImage
  result,            \* VkResult of the last vkQueueSubmit / vkQueuePresentKHR
  m_inFlightFences,            \* slot -> signalled?
  m_imageAvailableSemaphores,  \* slot -> [st, img, frame]
  m_renderFinishedSemaphores,  \* slot -> signalled?
  submissions,       \* batches on the graphics queue that have not completed
  presentQ,          \* requests on the present queue, oldest first
  destroyed,         \* slots whose sync objects cleanup has destroyed
  idleWaited,        \* vkDeviceWaitIdle has returned
  framesDone,        \* completed drawFrame iterations
  fenceWaits,        \* vkWaitForFences calls that returned
  presentCalls,      \* vkQueuePresentKHR calls
  gpuLog,            \* <<event, frame>> pairs of what has happened to each frame
  handed,            \* indices this iteration gave to vkQueueSubmit / vkQueuePresentKHR
  what,              \* message of the exception thrown, NoException when none
  stderr,            \* lines main has written to std::cerr
  environment,       \* "nominal": start-up inputs that let initVulkan pass; "any"
  enableValidationLayers,  \* the build's constant (false under NDEBUG)
  locals,            \* inputs read by the start-up function that ran last
  m_instance,        \* NullHandle until vkCreateInstance gives the instance
  m_physicalDevice,  \* a handle: index of an enumerated device, null or garbage
  query,             \* a call of one of the selection functions: name, arguments
  answer,            \* the values that call returned, one per evaluation
  ran,               \* the functions run() and initVulkan() have called, in order
  created,           \* <<kind, index>> of every object created, in order
  destroyedObjects,  \* <<kind, index>> of every object destroyed, in order
  m_swapchainImageViews,    \* view i -> index of the image it views
  m_swapchainFramebuffers,  \* framebuffer i -> index of the view attached
  m_commandBuffers,  \* command buffer i -> [framebuffer, recordings]
  steps              \* the calls drawFrame has made in the running iteration

vars == << pc, scenario, capabilities, swapchainImages, m_currentFrame,
           imageIndex, acquired, result, m_inFlightFences,
           m_imageAvailableSemaphores, m_renderFinishedSemaphores,
           submissions, presentQ, destroyed, idleWaited, framesDone,
           fenceWaits, presentCalls, gpuLog, handed, what, stderr,
           environment, enableValidationLayers, locals, m_instance,
           m_physicalDevice, query, answer, ran, created, destroyedObjects,
           m_swapchainImageViews, m_swapchainFramebuffers, m_commandBuffers,
           steps >>

\* state of the start-up steps before createSwapchain
frameVars ==
  << scenario, capabilities, swapchainImages, m_currentFrame, imageIndex,
     acquired, result, m_inFlightFences, m_imageAvailableSemaphores,
     m_renderFinishedSemaphores, submissions, presentQ, destroyed,
     idleWaited, framesDone, fenceWaits, presentCalls, gpuLog, handed >>

startVars == << environment, enableValidationLayers, locals, m_instance,
                m_physicalDevice >>

\* a call of a selection function and what it returned
queryVars == << query, answer >>
objectVars ==
  << ran, created, destroyedObjects, m_swapchainImageViews,
     m_swapchainFramebuffers, m_commandBuffers >>

K == Len(swapchainImages)
ImageIndices == 0 .. (K - 1)

\* state of image i (sequences are 1-based)
ImageState(i) == swapchainImages[i + 1]
SetImage(imgs, i, st) == [imgs EXCEPT ![i + 1] = st]

\* owner of an image: the presentation engine until the image-available
\* signal of its acquire, the submitted command stream from then until the
\* present request is executed
Owner(i) == IF ImageState(i) = "app" THEN "commands" ELSE "presentationEngine"

FrameLimit ==
  IF scenario THEN ScenarioFrames
  ELSE IF environment = "any" THEN StartupFrames
  ELSE MaxFrames

UnsignaledSemaphore == [st |-> "unsignaled", img |-> NoImage, frame |-> NoFrame]

NothingHanded == [cmd |-> NoImage, img |-> NoImage]

NoLocals == [fn |-> "none"]
NoQuery == [fn |-> "none"]

\* the application object after "HelloTriangleApp app;" and before run()
Constructed ==
  /\ ran = << >>
  /\ created = << >>
  /\ destroyedObjects = << >>
  /\ m_swapchainImageViews = << >>
  /\ m_swapchainFramebuffers = << >>
  /\ m_commandBuffers = << >>
  /\ steps = << >>
  /\ what = NoException
  /\ stderr = << >>
  /\ locals = NoLocals
  /\ m_instance = NullHandle
  /\ m_physicalDevice = Uninitialized
  /\ capabilities = [minImageCount |-> 0, maxImageCount |-> 0]
  /\ swapchainImages = << >>
  /\ m_currentFrame = 0
  /\ imageIndex = NoImage
  /\ acquired = NoImage
  /\ result = VK_SUCCESS
  /\ m_inFlightFences = [s \in Slots |-> FALSE]
  /\ m_imageAvailableSemaphores = [s \in Slots |-> UnsignaledSemaphore]
  /\ m_renderFinishedSemaphores = [s \in Slots |-> FALSE]
  /\ submissions = {}
  /\ presentQ = << >>
  /\ destroyed = {}
  /\ idleWaited = FALSE
  /\ framesDone = 0
  /\ fenceWaits = 0
  /\ presentCalls = 0
  /\ gpuLog = {}
  /\ handed = NothingHanded

InitCommon ==
  /\ Constructed
  /\ pc = "initWindow"
  /\ query = NoQuery
  /\ answer = << >>

Init ==
  /\ InitCommon
  /\ scenario = FALSE
  /\ environment = "nominal"
  /\ enableValidationLayers = TRUE

InitE2E ==
  /\ InitCommon
  /\ scenario = TRUE
  /\ environment = "nominal"
  /\ enableValidationLayers = TRUE

\* start-up with every input the bounds allow, in either build
InitStartup ==
  /\ InitCommon
  /\ scenario = FALSE
  /\ environment = "any"
  /\ enableValidationLayers \in BOOLEAN

\* ----------------------------------------------------- objects and history
Object(kind, index) == << kind, index >>

\* the objects of one kind with indices 0 .. n - 1, in index order
Objects(kind, n) == [i \in 1 .. n |-> Object(kind, i - 1)]

\* run() or initVulkan() calls fn
Enter(fn) == ran' = Append(ran, fn)

Create(objects) == created' = created \o objects

Destroy(objects) == destroyedObjects' = destroyedObjects \o objects

otherObjectVars ==
  << destroyedObjects, m_swapchainImageViews, m_swapchainFramebuffers,
     m_commandBuffers, steps >>

\* initWindow: glfwInit, glfwCreateWindow
InitWindow ==
  /\ pc = "initWindow"
  /\ Enter("initWindow")
  /\ Create(<< Object("window", 0) >>)
  /\ pc' = "createInstance"
  /\ UNCHANGED << frameVars, what, stderr, startVars, queryVars,
                  otherObjectVars >>

\* ------------------------------------------------- CPU: instance and device
\* what the loader and the window library can report at start-up
NominalLayers == << VK_LAYER_KHRONOS_validation >>
NominalExtensions == << "VK_KHR_surface", VK_EXT_DEBUG_UTILS_EXTENSION_NAME >>
NominalGlfwExtensions == << "VK_KHR_surface" >>

AvailableLayerLists ==
  IF environment = "nominal" THEN { NominalLayers }
  ELSE SeqsUpTo(LayerNames, MaxNames)

AvailableExtensionLists ==
  IF environment = "nominal" THEN { NominalExtensions }
  ELSE SeqsUpTo(ExtensionNames, MaxNames)

GlfwExtensionLists ==
  IF environment = "nominal" THEN { NominalGlfwExtensions }
  ELSE { << >>, NominalGlfwExtensions }

Throw(message) ==
  /\ what' = message
  /\ pc' = "catch"

\* createInstance: checkLayerSupport, checkExtensionSupport, vkCreateInstance
CreateInstance ==
  /\ pc = "createInstance"
  /\ Enter("createInstance")
  /\ \E availableLayers \in AvailableLayerLists,
        availableExtensions \in AvailableExtensionLists,
        glfwExtensions \in GlfwExtensionLists :
       LET requiredLayers == GetRequiredLayers(enableValidationLayers)
           unsupportedLayers ==
             GetUnsupportedLayers(availableLayers, requiredLayers)
           requiredExtensions ==
             GetRequiredExtensions(glfwExtensions, enableValidationLayers)
           unsupportedExtensions ==
             GetUnsupportedExtensions(availableExtensions, requiredExtensions)
           called(n) ==
             [fn |-> "createInstance",
              availableLayers |-> availableLayers,
              requiredLayers |-> requiredLayers,
              availableExtensions |-> availableExtensions,
              requiredExtensions |-> requiredExtensions,
              vkCreateInstanceCalls |-> n]
       IN  IF SupportCheckThrows(unsupportedLayers)
           THEN /\ Throw(<< "Validation layers requested but are not available: " >>
                           \o unsupportedLayers)
                /\ locals' = called(0)
                /\ UNCHANGED << m_instance, created >>
           ELSE IF SupportCheckThrows(unsupportedExtensions)
           THEN /\ Throw(<< "Extensions requested but are not available: " >>
                           \o unsupportedExtensions)
                /\ locals' = called(0)
                /\ UNCHANGED << m_instance, created >>
           ELSE /\ locals' = called(1)
                /\ \/ /\ m_instance' = 1
                      /\ Create(<< Object("instance", 0) >>)
                      /\ pc' = "setupDebugMessenger"
                      /\ UNCHANGED what
                   \/ /\ Throw(<< "Failed to create vk_instance!" >>)
                      /\ UNCHANGED << m_instance, created >>
  /\ UNCHANGED << frameVars, stderr, environment, enableValidationLayers,
                  m_physicalDevice, queryVars,
                  otherObjectVars >>

\* setupDebugMessenger: nothing to do in a release build
SetupDebugMessenger ==
  /\ pc = "setupDebugMessenger"
  /\ Enter("setupDebugMessenger")
  /\ IF ~enableValidationLayers
     THEN pc' = "createSurface" /\ UNCHANGED << what, created >>
     ELSE \/ /\ Create(<< Object("debugMessenger", 0) >>)
             /\ pc' = "createSurface"
             /\ UNCHANGED what
          \/ /\ Throw(<< "Failed to set up debug messenger!" >>)
             /\ UNCHANGED created
  /\ locals' = [fn |-> "setupDebugMessenger"]
  /\ UNCHANGED << frameVars, stderr, environment, enableValidationLayers,
                  m_instance, m_physicalDevice, queryVars,
                  otherObjectVars >>

CreateSurface ==
  /\ pc = "createSurface"
  /\ Enter("createSurface")
  /\ \/ /\ Create(<< Object("surface", 0) >>)
        /\ pc' = "pickPhysicalDevice"
        /\ UNCHANGED what
     \/ /\ Throw(<< "Failed to create window surface!" >>)
        /\ UNCHANGED created
  /\ locals' = [fn |-> "createSurface"]
  /\ UNCHANGED << frameVars, stderr, environment, enableValidationLayers,
                  m_instance, m_physicalDevice, queryVars,
                  otherObjectVars >>

\* std::optional<uint32_t> without a value
NoFamily == -1

QueueFamilyIndices(graphicsFamily, presentFamily) ==
  [graphicsFamily |-> graphicsFamily, presentFamily |-> presentFamily]

IsComplete(indices) ==
  indices.graphicsFamily # NoFamily /\ indices.presentFamily # NoFamily

\* the loop of findQueueFamilies from family i on (families are numbered from
\* 0 in the code, from 1 in the sequence)
RECURSIVE FindQueueFamiliesFrom(_, _, _)
FindQueueFamiliesFrom(queueFamilyProperties, i, indices) ==
  IF i > Len(queueFamilyProperties) THEN indices
  ELSE LET withGraphics ==
             IF queueFamilyProperties[i].graphics
             THEN [indices EXCEPT !.graphicsFamily = i - 1]
             ELSE indices
           withPresent ==
             IF queueFamilyProperties[i].present
             THEN [withGraphics EXCEPT !.presentFamily = i - 1]
             ELSE withGraphics
       IN  IF IsComplete(withPresent) THEN withPresent
           ELSE FindQueueFamiliesFrom(queueFamilyProperties, i + 1, withPresent)

FindQueueFamilies(device) ==
  FindQueueFamiliesFrom(device.queueFamilies, 1,
                        QueueFamilyIndices(NoFamily, NoFamily))

GetRequiredPhysicalDeviceExtensions == << VK_KHR_SWAPCHAIN_EXTENSION_NAME >>

CheckPhysicalDeviceExtensionSupport(device) ==
  Len(GetUnsupportedExtensions(device.extensions,
                               GetRequiredPhysicalDeviceExtensions)) = 0

IsPhysicalDeviceSuitable(device) ==
  IF ~CheckPhysicalDeviceExtensionSupport(device) THEN FALSE
  ELSE IF ~(device.formats > 0 /\ device.presentModes > 0) THEN FALSE
  ELSE IsComplete(FindQueueFamilies(device))

\* the physical devices an installation can enumerate
DeviceExtensionNames == { VK_KHR_SWAPCHAIN_EXTENSION_NAME, "VK_KHR_maintenance1" }

QueueFamilyProperties == [graphics : BOOLEAN, present : BOOLEAN]

NominalDevice ==
  [extensions |-> << VK_KHR_SWAPCHAIN_EXTENSION_NAME >>,
   formats |-> 1, presentModes |-> 1,
   queueFamilies |-> << [graphics |-> TRUE, present |-> TRUE] >>]

PhysicalDevices ==
  IF environment = "nominal" THEN { NominalDevice }
  ELSE [extensions : SeqsUpTo(DeviceExtensionNames, 1),
        formats : 0 .. 1, presentModes : 0 .. 1,
        queueFamilies : SeqsUpTo(QueueFamilyProperties, MaxQueueFamilies)]

PhysicalDeviceCounts ==
  IF environment = "nominal" THEN { 1 } ELSE 0 .. MaxDevices

\* what a device really offers, whatever the program asks of it
Offers(device) ==
  [swapchainExtension |->
     \E j \in 1 .. Len(device.extensions) :
        device.extensions[j] = VK_KHR_SWAPCHAIN_EXTENSION_NAME,
   formats |-> device.formats > 0,
   presentModes |-> device.presentModes > 0,
   graphics |->
     \E j \in 1 .. Len(device.queueFamilies) : device.queueFamilies[j].graphics,
   present |->
     \E j \in 1 .. Len(device.queueFamilies) : device.queueFamilies[j].present]

\* pickPhysicalDevice: enumerate the devices
PickPhysicalDevice ==
  /\ pc = "pickPhysicalDevice"
  /\ Enter("pickPhysicalDevice")
  /\ \E size \in PhysicalDeviceCounts :
       /\ locals' = [fn |-> "pickPhysicalDevice", size |-> size,
                     examined |-> << >>]
       /\ IF size = 0
          THEN Throw(<< "Failed to find GPUs with vulkan support!" >>)
          ELSE pc' = "examineDevice" /\ UNCHANGED what
  /\ UNCHANGED << frameVars, stderr, environment, enableValidationLayers,
                  m_instance, m_physicalDevice, queryVars,
                  created, otherObjectVars >>

\* one iteration of the loop over the enumerated devices
ExamineDevice ==
  /\ pc = "examineDevice"
  /\ \E device \in PhysicalDevices :
       /\ locals' = [locals EXCEPT !.examined = Append(@, Offers(device))]
       /\ IF IsPhysicalDeviceSuitable(device)
          THEN /\ m_physicalDevice' = Len(locals.examined) + 1
               /\ pc' = "devicePicked"
          ELSE /\ UNCHANGED m_physicalDevice
               /\ pc' = IF Len(locals.examined) + 1 < locals.size
                        THEN "examineDevice" ELSE "devicePicked"
  /\ UNCHANGED << frameVars, what, stderr, environment,
                  enableValidationLayers, m_instance, queryVars,
                  objectVars, steps >>

\* if (!m_physicalDevice): the member has no initializer, so when the loop
\* assigned nothing the test reads an indeterminate value
CheckPicked ==
  /\ pc = "devicePicked"
  /\ \E isNull \in BOOLEAN :
       /\ m_physicalDevice # Uninitialized => ~isNull
       /\ IF isNull
          THEN /\ Throw(<< "Failed to find a suitable GPU!" >>)
               /\ UNCHANGED m_physicalDevice
          ELSE /\ pc' = "createLogicalDevice"
               /\ m_physicalDevice' =
                    IF m_physicalDevice = Uninitialized THEN GarbageHandle
                    ELSE m_physicalDevice
               /\ UNCHANGED what
  /\ UNCHANGED << frameVars, stderr, environment, enableValidationLayers,
                  locals, m_instance, queryVars,
                  objectVars, steps >>

CreateLogicalDevice ==
  /\ pc = "createLogicalDevice"
  /\ Enter("createLogicalDevice")
  /\ \/ /\ Create(<< Object("device", 0) >>)
        /\ pc' = "createSwapchain"
        /\ UNCHANGED what
     \/ /\ Throw(<< "Failed to create logical device!" >>)
        /\ UNCHANGED created
  /\ locals' = [fn |-> "createLogicalDevice"]
  /\ UNCHANGED << frameVars, stderr, environment, enableValidationLayers,
                  m_instance, m_physicalDevice, queryVars,
                  otherObjectVars >>

\* ------------------------------------------------------------ CPU: start-up
\* createSwapchain: query the capabilities, request the image count, create
CreateSwapchain ==
  /\ pc = "createSwapchain"
  /\ Enter("createSwapchain")
  /\ \E caps \in SurfaceCapabilities :
       /\ scenario => caps = [minImageCount |-> 2, maxImageCount |-> 0]
       /\ capabilities' = caps
       /\ \/ \E k \in CreatedImageCounts(caps) :
               /\ scenario => k = 3
               /\ swapchainImages' = [i \in 1 .. k |-> "free"]
               /\ Create(<< Object("swapchain", 0) >>)
               /\ pc' = "createImageViews"
               /\ UNCHANGED what
          \/ /\ pc' = "catch"
             /\ what' = << "Failed to create swapchain!" >>
             /\ UNCHANGED << swapchainImages, created >>
  /\ UNCHANGED << scenario, m_currentFrame, imageIndex, acquired, result,
                  m_inFlightFences, m_imageAvailableSemaphores,
                  m_renderFinishedSemaphores, submissions, presentQ,
                  destroyed, idleWaited, framesDone, fenceWaits,
                  presentCalls, gpuLog, handed,
                  stderr, startVars, queryVars,
                  otherObjectVars >>

\* createImageViews: createInfo.image = m_swapchainImages[i]
ImageOfView(i) == i
\* createFramebuffers: createInfo.pAttachments = &m_swapchainImageViews[i]
AttachmentOfFramebuffer(i) == i
\* createCommandBuffers: renderPassInfo.framebuffer = m_swapchainFramebuffers[i]
FramebufferOfCommandBuffer_First(i) == 0
FramebufferOfCommandBuffer(i) == i

\* an element of a resized vector that its loop has not reached
NotCreated == -1
NotRecorded == [framebuffer |-> NotCreated, recordings |-> 0]

\* createImageViews: one view per swapchain image; the loop throws at the
\* first creation that fails
CreateImageViews ==
  /\ pc = "createImageViews"
  /\ Enter("createImageViews")
  /\ \E made \in 0 .. K :
       /\ m_swapchainImageViews' =
            [i \in 1 .. K |-> IF i <= made THEN ImageOfView(i - 1) ELSE NotCreated]
       /\ Create(Objects("imageView", made))
       /\ IF made = K
          THEN pc' = "createRenderPass" /\ UNCHANGED what
          ELSE Throw(<< "Failed to create image views!" >>)
  /\ UNCHANGED << frameVars, stderr, startVars, queryVars, destroyedObjects,
                  m_swapchainFramebuffers, m_commandBuffers, steps >>

CreateRenderPass ==
  /\ pc = "createRenderPass"
  /\ Enter("createRenderPass")
  /\ \/ /\ Create(<< Object("renderPass", 0) >>)
        /\ pc' = "createGraphicsPipeline"
        /\ UNCHANGED what
     \/ /\ Throw(<< "Failed to create RenderPass!" >>)
        /\ UNCHANGED created
  /\ UNCHANGED << frameVars, stderr, startVars, queryVars, otherObjectVars >>

ShaderModules == Objects("shaderModule", 2)

\* createGraphicsPipeline: read the two shader files, create the two shader
\* modules, the pipeline layout and the pipeline, destroy the shader modules
CreateGraphicsPipeline ==
  /\ pc = "createGraphicsPipeline"
  /\ Enter("createGraphicsPipeline")
  /\ \/ /\ Create(ShaderModules \o
                 << Object("pipelineLayout", 0), Object("pipeline", 0) >>)
        /\ Destroy(ShaderModules)
        /\ pc' = "createFramebuffers"
        /\ UNCHANGED what
     \/ /\ Throw(<< "Failed to open file shader.vert.spv !" >>)
        /\ UNCHANGED << created, destroyedObjects >>
     \/ /\ Throw(<< "Failed to create pipeline layout!" >>)
        /\ Create(ShaderModules)
        /\ UNCHANGED destroyedObjects
     \/ /\ Throw(<< "Failed to create graphics pipeline!" >>)
        /\ Create(ShaderModules \o << Object("pipelineLayout", 0) >>)
        /\ UNCHANGED destroyedObjects
  /\ UNCHANGED << frameVars, stderr, startVars, queryVars,
                  m_swapchainImageViews, m_swapchainFramebuffers,
                  m_commandBuffers, steps >>

\* createFramebuffers: one framebuffer per image view
CreateFramebuffers ==
  /\ pc = "createFramebuffers"
  /\ Enter("createFramebuffers")
  /\ LET size == Len(m_swapchainImageViews)
     IN  \E made \in 0 .. size :
            /\ m_swapchainFramebuffers' =
                 [i \in 1 .. size |->
                    IF i <= made THEN AttachmentOfFramebuffer(i - 1)
                    ELSE NotCreated]
            /\ Create(Objects("framebuffer", made))
            /\ IF made = size
               THEN pc' = "createCommandPool" /\ UNCHANGED what
               ELSE Throw(<< "Failed to create framebuffer!" >>)
  /\ UNCHANGED << frameVars, stderr, startVars, queryVars, destroyedObjects,
                  m_swapchainImageViews, m_commandBuffers, steps >>

CreateCommandPool ==
  /\ pc = "createCommandPool"
  /\ Enter("createCommandPool")
  /\ \/ /\ Create(<< Object("commandPool", 0) >>)
        /\ pc' = "createCommandBuffers"
        /\ UNCHANGED what
     \/ /\ Throw(<< "Failed to create command pool!" >>)
        /\ UNCHANGED created
  /\ UNCHANGED << frameVars, stderr, startVars, queryVars, otherObjectVars >>

\* createCommandBuffers: allocate one command buffer per framebuffer, then
\* record each of them once against the framebuffer of its index
CreateCommandBuffers ==
  /\ pc = "createCommandBuffers"
  /\ Enter("createCommandBuffers")
  /\ LET size == Len(m_swapchainFramebuffers)
     IN  \/ /\ Throw(<< "Failed to allocate command buffers!" >>)
            /\ m_commandBuffers' = [i \in 1 .. size |-> NotRecorded]
            /\ UNCHANGED created
         \/ \E recorded \in 0 .. size :
              /\ m_commandBuffers' =
                   [i \in 1 .. size |->
                      IF i <= recorded
                      THEN [framebuffer |-> FramebufferOfCommandBuffer(i - 1),
                            recordings |-> 1]
                      ELSE NotRecorded]
              /\ Create(Objects("commandBuffer", size))
              /\ IF recorded = size
                 THEN pc' = "createSyncObjects" /\ UNCHANGED what
                 ELSE \E message \in { "Failed to begin recording command buffer!",
                                       "Failed to record command buffer!" } :
                         Throw(<< message >>)
  /\ UNCHANGED << frameVars, stderr, startVars, queryVars, destroyedObjects,
                  m_swapchainImageViews, m_swapchainFramebuffers, steps >>

\* the sync objects of the slots 0 .. n - 1 in creation order
RECURSIVE SyncObjects(_)
SyncObjects(n) ==
  IF n = 0 THEN << >>
  ELSE SyncObjects(n - 1) \o
       << Object("imageAvailable", n - 1), Object("renderFinished", n - 1),
          Object("fence", n - 1) >>

\* createSyncObjects: MAX_FRAMES_IN_FLIGHT semaphore pairs and fences, the
\* fences created signalled; throws when a creation fails
CreateSyncObjects ==
  /\ pc = "createSyncObjects"
  /\ Enter("createSyncObjects")
  /\ \/ /\ m_inFlightFences' = [s \in Slots |-> TRUE]
        /\ m_imageAvailableSemaphores' = [s \in Slots |-> UnsignaledSemaphore]
        /\ m_renderFinishedSemaphores' = [s \in Slots |-> FALSE]
        /\ Create(SyncObjects(MAX_FRAMES_IN_FLIGHT))
        /\ pc' = "mainLoop"
        /\ UNCHANGED what
     \/ /\ pc' = "catch"
        /\ what' = << "Failed to create synchronization objects!" >>
        /\ \E made \in 0 .. Len(SyncObjects(MAX_FRAMES_IN_FLIGHT)) - 1 :
              Create(SubSeq(SyncObjects(MAX_FRAMES_IN_FLIGHT), 1, made))
        /\ UNCHANGED << m_inFlightFences, m_imageAvailableSemaphores,
                        m_renderFinishedSemaphores >>
  /\ UNCHANGED << scenario, capabilities, swapchainImages, m_currentFrame,
                  imageIndex, acquired, result, submissions, presentQ,
                  destroyed, idleWaited, framesDone, fenceWaits,
                  presentCalls, gpuLog, handed,
                  stderr, startVars, queryVars,
                  otherObjectVars >>

\* ----------------------------------------------------------- CPU: mainLoop
otherMainLoopVars ==
  << destroyedObjects, m_swapchainImageViews, m_swapchainFramebuffers,
     m_commandBuffers >>

\* while (!glfwWindowShouldClose(m_window)) { glfwPollEvents(); drawFrame(); }
MainLoop ==
  /\ pc = "mainLoop"
  /\ ran' = IF ran[Len(ran)] = "mainLoop" THEN ran ELSE Append(ran, "mainLoop")
  /\ \/ /\ framesDone < FrameLimit
        /\ acquired' = NoImage
        /\ handed' = NothingHanded
        /\ steps' = << Step("drawFrame", { m_currentFrame }) >>
        /\ pc' = "waitFence"
     \/ /\ pc' = "waitIdle"
        /\ UNCHANGED << acquired, handed, steps >>
  /\ UNCHANGED << scenario, capabilities, swapchainImages, m_currentFrame,
                  imageIndex, result, m_inFlightFences,
                  m_imageAvailableSemaphores, m_renderFinishedSemaphores,
                  submissions, presentQ, destroyed, idleWaited, framesDone,
                  fenceWaits, presentCalls, gpuLog,
                  what, stderr, startVars, queryVars,
                  created, otherMainLoopVars >>

\* vkDeviceWaitIdle: no batch is pending on the graphics queue and no
\* request is pending on the present queue
DeviceIdle == submissions = {} /\ presentQ = << >>

\* whether vkDeviceWaitIdle may return
DeviceWaitIdleReturns_NoWait(idle) == TRUE
DeviceWaitIdleReturns(idle) == idle

\* vkDeviceWaitIdle(m_device) at the end of mainLoop
DeviceWaitIdle ==
  /\ pc = "waitIdle"
  /\ DeviceWaitIdleReturns(DeviceIdle)
  /\ idleWaited' = TRUE
  /\ pc' = "cleanup"
  /\ UNCHANGED << scenario, capabilities, swapchainImages, m_currentFrame,
                  imageIndex, acquired, result, m_inFlightFences,
                  m_imageAvailableSemaphores, m_renderFinishedSemaphores,
                  submissions, presentQ, destroyed, framesDone, fenceWaits,
                  presentCalls, gpuLog, handed,
                  what, stderr, startVars, queryVars,
                  objectVars, steps >>

\* ---------------------------------------------------------- CPU: drawFrame
\* vkWaitForFences on the fence of the current slot
WaitForFences ==
  /\ pc = "waitFence"
  /\ FenceWaitReturns(m_inFlightFences[FenceToWait(m_currentFrame)])
  /\ fenceWaits' = fenceWaits + 1
  /\ pc' = "resetFence"
  /\ steps' = Append(steps, Step("vkWaitForFences", { FenceToWait(m_currentFrame) }))
  /\ UNCHANGED << scenario, capabilities, swapchainImages, m_currentFrame,
                  imageIndex, acquired, result, m_inFlightFences,
                  m_imageAvailableSemaphores, m_renderFinishedSemaphores,
                  submissions, presentQ, destroyed, idleWaited, framesDone,
                  presentCalls, gpuLog, handed,
                  what, stderr, startVars, queryVars,
                  objectVars >>

\* vkResetFences on the fence of the current slot
ResetFences ==
  /\ pc = "resetFence"
  /\ m_inFlightFences' = [m_inFlightFences EXCEPT ![FenceToReset(m_currentFrame)] = FALSE]
  /\ pc' = "acquire"
  /\ steps' = Append(steps, Step("vkResetFences", { FenceToReset(m_currentFrame) }))
  /\ UNCHANGED << scenario, capabilities, swapchainImages, m_currentFrame,
                  imageIndex, acquired, result,
                  m_imageAvailableSemaphores, m_renderFinishedSemaphores,
                  submissions, presentQ, destroyed, idleWaited, framesDone,
                  fenceWaits, presentCalls, gpuLog, handed,
                  what, stderr, startVars, queryVars,
                  objectVars >>

\* vkAcquireNextImageKHR returns an image the presentation engine has made
\* acquirable and writes its index; the slot's image-available semaphore
\* is signalled later, when the engine has finished reading the image.
\* With timeout UINT64_MAX the call does not return while no image is
\* acquirable.
AcquireNextImage ==
  /\ pc = "acquire"
  /\ \E i \in ImageIndices :
       /\ ImageState(i) = "free"
       /\ swapchainImages' = SetImage(swapchainImages, i, "handoff")
       /\ imageIndex' = i
       /\ acquired' = i
       /\ m_imageAvailableSemaphores' =
            [m_imageAvailableSemaphores EXCEPT ![AcquireSemaphore(m_currentFrame)] =
               [st |-> "pending", img |-> i, frame |-> framesDone]]
  /\ pc' = "submit"
  /\ steps' = Append(steps, Step("vkAcquireNextImageKHR", { AcquireSemaphore(m_currentFrame) }))
  /\ UNCHANGED << scenario, capabilities, m_currentFrame, result,
                  m_inFlightFences, m_renderFinishedSemaphores, submissions,
                  presentQ, destroyed, idleWaited, framesDone, fenceWaits,
                  presentCalls, gpuLog, handed,
                  what, stderr, startVars, queryVars,
                  objectVars >>

\* vkAcquireNextImageKHR returns an error (out of date, surface lost): the
\* semaphore is left alone and imageIndex is not written; the return value
\* is not looked at, so drawFrame goes on with whatever the uninitialised
\* local holds (K stands for every value that is not an image index)
AcquireNextImageFails ==
  /\ pc = "acquire"
  /\ \E garbage \in 0 .. K : imageIndex' = garbage
  /\ acquired' = NoImage
  /\ pc' = "submit"
  /\ steps' = Append(steps, Step("vkAcquireNextImageKHR", { AcquireSemaphore(m_currentFrame) }))
  /\ UNCHANGED << scenario, capabilities, swapchainImages, m_currentFrame,
                  result, m_inFlightFences, m_imageAvailableSemaphores,
                  m_renderFinishedSemaphores, submissions, presentQ,
                  destroyed, idleWaited, framesDone, fenceWaits,
                  presentCalls, gpuLog, handed,
                  what, stderr, startVars, queryVars,
                  objectVars >>

\* vkQueueSubmit succeeds: one batch on the graphics queue
QueueSubmit ==
  /\ pc = "submit"
  /\ submissions' = submissions \cup
       { [id     |-> framesDone,
          slot   |-> m_currentFrame,
          wait   |-> SubmitWaitSemaphore(m_currentFrame),
          signal |-> SubmitSignalSemaphore(m_currentFrame),
          fence  |-> SubmitFence(m_currentFrame),
          cmd    |-> SubmittedCommandBuffer(imageIndex, m_currentFrame),
          st     |-> "queued"] }
  /\ result' = VK_SUCCESS
  /\ handed' = [handed EXCEPT !.cmd = SubmittedCommandBuffer(imageIndex, m_currentFrame)]
  /\ gpuLog' = gpuLog \cup {<<"submitted", framesDone>>}
  /\ pc' = "present"
  /\ steps' =
       Append(steps, Step("vkQueueSubmit",
                    { SubmitWaitSemaphore(m_currentFrame),
                      SubmitSignalSemaphore(m_currentFrame),
                      SubmitFence(m_currentFrame) }))
  /\ UNCHANGED << scenario, capabilities, swapchainImages, m_currentFrame,
                  imageIndex, acquired, m_inFlightFences,
                  m_imageAvailableSemaphores, m_renderFinishedSemaphores,
                  presentQ, destroyed, idleWaited, framesDone, fenceWaits,
                  presentCalls,
                  what, stderr, startVars, queryVars,
                  objectVars >>

\* vkQueueSubmit fails: throw std::runtime_error
QueueSubmitFails ==
  /\ pc = "submit"
  /\ result' = VK_ERROR
  /\ what' = << "Failed to submit draw command buffer!" >>
  /\ pc' = "catch"
  /\ steps' =
       Append(steps, Step("vkQueueSubmit",
                    { SubmitWaitSemaphore(m_currentFrame),
                      SubmitSignalSemaphore(m_currentFrame),
                      SubmitFence(m_currentFrame) }))
  /\ UNCHANGED << scenario, capabilities, swapchainImages, m_currentFrame,
                  imageIndex, acquired, m_inFlightFences,
                  m_imageAvailableSemaphores, m_renderFinishedSemaphores,
                  submissions, presentQ, destroyed, idleWaited, framesDone,
                  fenceWaits, presentCalls, gpuLog, handed,
                  stderr, startVars, queryVars,
                  objectVars >>

\* the request vkQueuePresentKHR puts on the present queue
PresentRequest(rejected) ==
  [id       |-> framesDone,
   slot     |-> m_currentFrame,
   wait     |-> PresentWaitSemaphore(m_currentFrame),
   img      |-> PresentedImageIndex(imageIndex, m_currentFrame),
   rejected |-> rejected]

\* vkQueuePresentKHR; its return value is not looked at. A request the
\* presentation engine rejects still performs its semaphore wait on the
\* queue, and the image is not shown.
\* vkQueuePresentKHR returns once the request is queued, whether or not the
\* batch that signals renderFinished has completed (the vkQueueWaitIdle
\* after it is commented out)
PresentReturns_WaitsForRender(renderFinished) == renderFinished
PresentReturns(renderFinished) == TRUE

QueuePresent ==
  /\ pc = "present"
  /\ PresentReturns(m_renderFinishedSemaphores[PresentWaitSemaphore(m_currentFrame)])
  /\ \E rejected \in BOOLEAN :
       /\ presentQ' = Append(presentQ, PresentRequest(rejected))
       /\ result' = IF rejected THEN VK_ERROR ELSE VK_SUCCESS
  /\ handed' = [handed EXCEPT !.img = PresentedImageIndex(imageIndex, m_currentFrame)]
  /\ presentCalls' = presentCalls + 1
  /\ pc' = "advance"
  /\ steps' = Append(steps, Step("vkQueuePresentKHR", { PresentWaitSemaphore(m_currentFrame) }))
  /\ UNCHANGED << scenario, capabilities, swapchainImages, m_currentFrame,
                  imageIndex, acquired, m_inFlightFences,
                  m_imageAvailableSemaphores, m_renderFinishedSemaphores,
                  submissions, destroyed, idleWaited, framesDone, fenceWaits,
                  gpuLog,
                  what, stderr, startVars, queryVars,
                  objectVars >>

\* m_currentFrame = (m_currentFrame + 1) % MAX_FRAMES_IN_FLIGHT; return
AdvanceFrame ==
  /\ pc = "advance"
  /\ m_currentFrame' = NextFrame(m_currentFrame)
  /\ framesDone' = framesDone + 1
  /\ pc' = "mainLoop"
  /\ steps' = Append(steps, Step("advance", { m_currentFrame }))
  /\ UNCHANGED << scenario, capabilities, swapchainImages, imageIndex,
                  acquired, result, m_inFlightFences,
                  m_imageAvailableSemaphores, m_renderFinishedSemaphores,
                  submissions, presentQ, destroyed, idleWaited, fenceWaits,
                  presentCalls, gpuLog, handed,
                  what, stderr, startVars, queryVars,
                  objectVars >>

\* ------------------------------------------------------- CPU: cleanup, main
\* cleanup: the loop that destroys the three sync objects of each slot in
\* index order, then the remaining objects
\* the objects cleanup destroys after the loop over the slots, in the order
\* of its calls (vkDestroyCommandPool frees the command buffers of the pool)
DestroyedWithDevice ==
  Objects("commandBuffer", Len(m_commandBuffers)) \o
  << Object("commandPool", 0), Object("pipeline", 0),
     Object("pipelineLayout", 0) >> \o
  Objects("framebuffer", Len(m_swapchainFramebuffers)) \o
  << Object("renderPass", 0) >> \o
  Objects("imageView", Len(m_swapchainImageViews)) \o
  << Object("swapchain", 0) >>

DestroyedAfterSwapchain_InstanceFirst ==
  << Object("instance", 0), Object("device", 0), Object("surface", 0) >> \o
  (IF enableValidationLayers THEN << Object("debugMessenger", 0) >> ELSE << >>) \o
  << Object("window", 0) >>
DestroyedAfterSwapchain ==
  << Object("device", 0), Object("surface", 0) >> \o
  (IF enableValidationLayers THEN << Object("debugMessenger", 0) >> ELSE << >>) \o
  << Object("instance", 0), Object("window", 0) >>

Cleanup ==
  /\ pc = "cleanup"
  /\ ran' = IF ran[Len(ran)] = "cleanup" THEN ran ELSE Append(ran, "cleanup")
  /\ \/ \E i \in Slots :
          /\ i \notin destroyed
          /\ \A j \in Slots : j < i => j \in destroyed
          /\ destroyed' = destroyed \cup {i}
          /\ Destroy(<< Object("imageAvailable", i),
                        Object("renderFinished", i), Object("fence", i) >>)
          /\ pc' = pc
     \/ /\ destroyed = Slots
        /\ Destroy(DestroyedWithDevice \o DestroyedAfterSwapchain)
        /\ pc' = "exitSuccess"
        /\ UNCHANGED destroyed
  /\ UNCHANGED << scenario, capabilities, swapchainImages, m_currentFrame,
                  imageIndex, acquired, result, m_inFlightFences,
                  m_imageAvailableSemaphores, m_renderFinishedSemaphores,
                  submissions, presentQ, idleWaited, framesDone, fenceWaits,
                  presentCalls, gpuLog, handed,
                  what, stderr, startVars, queryVars,
                  created, m_swapchainImageViews, m_swapchainFramebuffers,
                  m_commandBuffers, steps >>

\* main: catch (const std::exception &e) { ...; return EXIT_FAILURE; }
\* what main returns after the catch block has run
ExitAfterCatch_Success == "exitSuccess"
ExitAfterCatch == "exitFailure"

Catch ==
  /\ pc = "catch"
  /\ stderr' = Append(stderr, what)
  /\ pc' = ExitAfterCatch
  /\ UNCHANGED << scenario, capabilities, swapchainImages, m_currentFrame,
                  imageIndex, acquired, result, m_inFlightFences,
                  m_imageAvailableSemaphores, m_renderFinishedSemaphores,
                  submissions, presentQ, destroyed, idleWaited, framesDone,
                  fenceWaits, presentCalls, gpuLog, handed,
                  what, startVars, queryVars,
                  objectVars, steps >>

\* ------------------------------------- graphics queue, present queue, engine
\* What the driver does with the operations drawFrame hands to it:
\*  - batches of the graphics queue may start and complete in any order; a
\*    batch waits for its wait semaphore at the stage of pWaitDstStageMask
\*    and signals its signal semaphore and its fence when it completes;
\*  - requests of the present queue are executed oldest first, each after
\*    its wait semaphore is signalled;
\*  - semaphores are binary: a wait unsignals, a signal on a signalled
\*    semaphore leaves it signalled;
\*  - the presentation engine releases presented images at any later time.
\* The presentation engine finishes reading an acquired image and signals the
\* semaphore given to that acquire: the image now belongs to the application.
SignalImageAvailable(s) ==
  /\ m_imageAvailableSemaphores[s].st = "pending"
  /\ m_imageAvailableSemaphores' =
       [m_imageAvailableSemaphores EXCEPT ![s].st = "signaled"]
  /\ swapchainImages' =
       SetImage(swapchainImages, m_imageAvailableSemaphores[s].img, "app")
  /\ gpuLog' = gpuLog \cup {<<"released", m_imageAvailableSemaphores[s].frame>>}
  /\ UNCHANGED << pc, scenario, capabilities, m_currentFrame, imageIndex,
                  acquired, result, m_inFlightFences,
                  m_renderFinishedSemaphores, submissions, presentQ,
                  destroyed, idleWaited, framesDone, fenceWaits,
                  presentCalls, handed,
                  what, stderr, startVars, queryVars,
                  objectVars, steps >>

\* A batch reaches the stage of its pWaitDstStageMask
\* (COLOR_ATTACHMENT_OUTPUT): it waits for its wait semaphore, unsignals it
\* and starts writing the image of its command buffer.
BeginColorOutput(b) ==
  /\ b \in submissions
  /\ b.st = "queued"
  /\ m_imageAvailableSemaphores[b.wait].st = "signaled"
  /\ m_imageAvailableSemaphores' =
       [m_imageAvailableSemaphores EXCEPT ![b.wait] = UnsignaledSemaphore]
  /\ submissions' = (submissions \ {b}) \cup {[b EXCEPT !.st = "color"]}
  /\ gpuLog' = gpuLog \cup {<<"color", b.id>>}
  /\ UNCHANGED << pc, scenario, capabilities, swapchainImages, m_currentFrame,
                  imageIndex, acquired, result, m_inFlightFences,
                  m_renderFinishedSemaphores, presentQ, destroyed,
                  idleWaited, framesDone, fenceWaits, presentCalls, handed,
                  what, stderr, startVars, queryVars,
                  objectVars, steps >>

\* A batch completes: its signal semaphore and its fence are signalled.
CompleteSubmission(b) ==
  /\ b \in submissions
  /\ b.st = "color"
  /\ submissions' = submissions \ {b}
  /\ m_renderFinishedSemaphores' =
       [m_renderFinishedSemaphores EXCEPT ![b.signal] = TRUE]
  /\ m_inFlightFences' = [m_inFlightFences EXCEPT ![b.fence] = TRUE]
  /\ gpuLog' = gpuLog \cup {<<"completed", b.id>>}
  /\ UNCHANGED << pc, scenario, capabilities, swapchainImages, m_currentFrame,
                  imageIndex, acquired, result, m_imageAvailableSemaphores,
                  presentQ, destroyed, idleWaited, framesDone, fenceWaits,
                  presentCalls, handed,
                  what, stderr, startVars, queryVars,
                  objectVars, steps >>

\* The oldest request of the present queue starts: it waits for its wait
\* semaphore, unsignals it and hands the image to the presentation engine
\* (which gives the image of a rejected request back without showing it).
ExecutePresent ==
  /\ presentQ # << >>
  /\ LET r == Head(presentQ) IN
       /\ m_renderFinishedSemaphores[r.wait]
       /\ m_renderFinishedSemaphores' =
            [m_renderFinishedSemaphores EXCEPT ![r.wait] = FALSE]
       /\ swapchainImages' =
            IF r.img \in ImageIndices
              THEN SetImage(swapchainImages, r.img,
                            IF r.rejected THEN "free" ELSE "presented")
              ELSE swapchainImages
       /\ gpuLog' = gpuLog \cup {<<"presentStarted", r.id>>}
  /\ presentQ' = Tail(presentQ)
  /\ UNCHANGED << pc, scenario, capabilities, m_currentFrame, imageIndex,
                  acquired, result, m_inFlightFences,
                  m_imageAvailableSemaphores, submissions, destroyed,
                  idleWaited, framesDone, fenceWaits, presentCalls, handed,
                  what, stderr, startVars, queryVars,
                  objectVars, steps >>

\* The presentation engine makes a presented image acquirable again.
ReleaseImage(i) ==
  /\ i \in ImageIndices
  /\ ImageState(i) = "presented"
  /\ swapchainImages' = SetImage(swapchainImages, i, "free")
  /\ UNCHANGED << pc, scenario, capabilities, m_currentFrame, imageIndex,
                  acquired, result, m_inFlightFences,
                  m_imageAvailableSemaphores, m_renderFinishedSemaphores,
                  submissions, presentQ, destroyed, idleWaited, framesDone,
                  fenceWaits, presentCalls, gpuLog, handed,
                  what, stderr, startVars, queryVars,
                  objectVars, steps >>

\* ------------------------------------------------------------ specification
Next ==
  \/ InitWindow
  \/ CreateInstance
  \/ SetupDebugMessenger
  \/ CreateSurface
  \/ PickPhysicalDevice
  \/ ExamineDevice
  \/ CheckPicked
  \/ CreateLogicalDevice
  \/ CreateSwapchain
  \/ CreateImageViews
  \/ CreateRenderPass
  \/ CreateGraphicsPipeline
  \/ CreateFramebuffers
  \/ CreateCommandPool
  \/ CreateCommandBuffers
  \/ CreateSyncObjects
  \/ MainLoop
  \/ WaitForFences
  \/ ResetFences
  \/ AcquireNextImage
  \/ AcquireNextImageFails
  \/ QueueSubmit
  \/ QueueSubmitFails
  \/ QueuePresent
  \/ AdvanceFrame
  \/ DeviceWaitIdle
  \/ Cleanup
  \/ Catch
  \/ \E s \in Slots : SignalImageAvailable(s)
  \/ \E b \in submissions : BeginColorOutput(b)
  \/ \E b \in submissions : CompleteSubmission(b)
  \/ ExecutePresent
  \/ \E i \in ImageIndices : ReleaseImage(i)

Spec == Init /\ [][Next]_vars

SpecE2E == InitE2E /\ [][Next]_vars

SpecStartup == InitStartup /\ [][Next]_vars

\* ------------------------------------------ swapchain choices, as functions
VK_FORMAT_B8G8R8A8_SRGB == "VK_FORMAT_B8G8R8A8_SRGB"
VK_FORMAT_B8G8R8A8_UNORM == "VK_FORMAT_B8G8R8A8_UNORM"
VK_COLOR_SPACE_SRGB_NONLINEAR_KHR == "VK_COLOR_SPACE_SRGB_NONLINEAR_KHR"
VK_COLOR_SPACE_EXTENDED_SRGB_LINEAR_EXT == "VK_COLOR_SPACE_EXTENDED_SRGB_LINEAR_EXT"

SurfaceFormats ==
  [format : { VK_FORMAT_B8G8R8A8_SRGB, VK_FORMAT_B8G8R8A8_UNORM },
   colorSpace : { VK_COLOR_SPACE_SRGB_NONLINEAR_KHR,
                  VK_COLOR_SPACE_EXTENDED_SRGB_LINEAR_EXT }]

\* the loop of pickSwapchainSurfaceFormat from entry i on
RECURSIVE PickSurfaceFormatFrom(_, _)
PickSurfaceFormatFrom(availableFormats, i) ==
  IF i > Len(availableFormats) THEN availableFormats[1]
  ELSE IF /\ availableFormats[i].format = VK_FORMAT_B8G8R8A8_SRGB
          /\ availableFormats[i].colorSpace = VK_COLOR_SPACE_SRGB_NONLINEAR_KHR
       THEN availableFormats[i]
       ELSE PickSurfaceFormatFrom(availableFormats, i + 1)

PickSwapchainSurfaceFormat_First(availableFormats) == availableFormats[1]
PickSwapchainSurfaceFormat(availableFormats) ==
  PickSurfaceFormatFrom(availableFormats, 1)

VK_PRESENT_MODE_IMMEDIATE_KHR == "VK_PRESENT_MODE_IMMEDIATE_KHR"
VK_PRESENT_MODE_MAILBOX_KHR == "VK_PRESENT_MODE_MAILBOX_KHR"
VK_PRESENT_MODE_FIFO_KHR == "VK_PRESENT_MODE_FIFO_KHR"
VK_PRESENT_MODE_FIFO_RELAXED_KHR == "VK_PRESENT_MODE_FIFO_RELAXED_KHR"

PresentModes ==
  { VK_PRESENT_MODE_IMMEDIATE_KHR, VK_PRESENT_MODE_MAILBOX_KHR,
    VK_PRESENT_MODE_FIFO_KHR, VK_PRESENT_MODE_FIFO_RELAXED_KHR }

\* the loop of pickSwapchainPresentMode from entry i on
RECURSIVE PickPresentModeFrom(_, _)
PickPresentModeFrom(availableModes, i) ==
  IF i > Len(availableModes) THEN VK_PRESENT_MODE_FIFO_KHR
  ELSE IF availableModes[i] = VK_PRESENT_MODE_MAILBOX_KHR
       THEN availableModes[i]
       ELSE PickPresentModeFrom(availableModes, i + 1)

PickSwapchainPresentMode_First(availableModes) ==
  IF Len(availableModes) > 0 THEN availableModes[1]
  ELSE VK_PRESENT_MODE_FIFO_KHR
PickSwapchainPresentMode(availableModes) ==
  PickPresentModeFrom(availableModes, 1)

WIDTH == 800
HEIGHT == 600
\* the largest value of an extent component; the model checker's integers
\* are 32-bit signed, so the component type is taken 31 bits wide
UINT32_MAX == 2147483647

Max(a, b) == IF a > b THEN a ELSE b

\* glm::clamp(x, minVal, maxVal) = min(max(x, minVal), maxVal)
Clamp(x, minVal, maxVal) == Min(Max(x, minVal), maxVal)

VkExtent2D(width, height) == [width |-> width, height |-> height]

PickSwapchainExtent_NoClamp(surfaceCapabilities) ==
  IF surfaceCapabilities.currentExtent.width = UINT32_MAX
  THEN VkExtent2D(WIDTH, HEIGHT)
  ELSE surfaceCapabilities.currentExtent
PickSwapchainExtent(surfaceCapabilities) ==
  IF surfaceCapabilities.currentExtent.width = UINT32_MAX
  THEN VkExtent2D(
         Clamp(WIDTH, surfaceCapabilities.minImageExtent.width,
               surfaceCapabilities.maxImageExtent.width),
         Clamp(HEIGHT, surfaceCapabilities.minImageExtent.height,
               surfaceCapabilities.maxImageExtent.height))
  ELSE surfaceCapabilities.currentExtent

\* extents a surface can report: widths and heights below, at and above the
\* window size, the minimum not above the maximum, and a current extent that
\* is the special value (UINT32_MAX, UINT32_MAX) or lies within the bounds
ExtentWidths == { 640, WIDTH, 1024 }
ExtentHeights == { 480, HEIGHT, 768 }
Extents == [width : ExtentWidths, height : ExtentHeights]
DriverChooses == VkExtent2D(UINT32_MAX, UINT32_MAX)

Within(extent, minExtent, maxExtent) ==
  /\ minExtent.width <= extent.width
  /\ extent.width <= maxExtent.width
  /\ minExtent.height <= extent.height
  /\ extent.height <= maxExtent.height

ExtentCapabilities ==
  { c \in [currentExtent : Extents \cup { DriverChooses },
           minImageExtent : Extents, maxImageExtent : Extents] :
      /\ Within(c.minImageExtent, c.minImageExtent, c.maxImageExtent)
      /\ \/ c.currentExtent = DriverChooses
         \/ Within(c.currentExtent, c.minImageExtent, c.maxImageExtent) }

\* the devices pickPhysicalDevice can have selected: findQueueFamilies finds
\* a graphics family and a present family
SelectableDevices ==
  { device \in [queueFamilies : SeqsUpTo(QueueFamilyProperties, MaxQueueFamilies)] :
      IsComplete(FindQueueFamilies(device)) }

\* iteration over a std::set<uint32_t>: ascending order
RECURSIVE Ascending(_)
Ascending(set) ==
  IF set = {} THEN << >>
  ELSE LET least == CHOOSE x \in set : \A y \in set : x <= y
       IN  << least >> \o Ascending(set \ { least })

\* createLogicalDevice: one VkDeviceQueueCreateInfo per element of
\* uniqueQueueFamilyIndices
UniqueQueueFamilyIndices_Both(queueIndices) ==
  << queueIndices.graphicsFamily, queueIndices.presentFamily >>
UniqueQueueFamilyIndices(queueIndices) ==
  Ascending({ queueIndices.graphicsFamily, queueIndices.presentFamily })

QueueCreateInfos(queueIndices) ==
  LET unique == UniqueQueueFamilyIndices(queueIndices)
  IN  [n \in 1 .. Len(unique) |->
         [queueFamilyIndex |-> unique[n], queueCount |-> 1]]

VK_SHARING_MODE_EXCLUSIVE == "VK_SHARING_MODE_EXCLUSIVE"
VK_SHARING_MODE_CONCURRENT == "VK_SHARING_MODE_CONCURRENT"

\* what vkCreateSwapchainKHR can read through pQueueFamilyIndices: the array
\* is a local of the else block, which has ended when the call is made, so
\* each element is what was stored or whatever has replaced it (the value
\* MaxQueueFamilies stands for every value that is no family index)
DanglingReads(stored) ==
  { stored } \cup [1 .. Len(stored) -> 0 .. MaxQueueFamilies]

\* the sharing part of the VkSwapchainCreateInfoKHR as the driver reads it
SwapchainSharing(indices) ==
  IF indices.graphicsFamily = indices.presentFamily
  THEN { [imageSharingMode |-> VK_SHARING_MODE_EXCLUSIVE,
          queueFamilyIndexCount |-> 0,
          pQueueFamilyIndices |-> << >>] }
  ELSE { [imageSharingMode |-> VK_SHARING_MODE_CONCURRENT,
          queueFamilyIndexCount |-> 2,
          pQueueFamilyIndices |-> read] :
           read \in DanglingReads(<< indices.graphicsFamily,
                                     indices.presentFamily >>) }

\* a function called on its own, MaxCalls times with the same arguments
MaxCalls == 2

Queries ==
  [fn : {"getUnsupportedExtensions"},
   available : SeqsUpTo(ExtensionNames, MaxNames),
   required : SeqsUpTo(ExtensionNames, MaxNames)]
  \cup
  [fn : {"getUnsupportedLayers"},
   available : SeqsUpTo(LayerNames, MaxNames),
   required : SeqsUpTo(LayerNames, MaxNames)]
  \cup
  [fn : {"pickSwapchainSurfaceFormat"},
   availableFormats : SeqsUpTo(SurfaceFormats, MaxListed) \ { << >> }]
  \cup
  [fn : {"pickSwapchainPresentMode"},
   availableModes : SeqsUpTo(PresentModes, MaxListed)]
  \cup
  [fn : {"pickSwapchainExtent"}, surfaceCapabilities : ExtentCapabilities]
  \cup
  [fn : {"imageCount"}, capabilities : SurfaceCapabilities]
  \cup
  [fn : {"queueCreateInfos", "swapchainSharing"}, device : SelectableDevices]

InitQueries ==
  /\ Constructed
  /\ scenario = FALSE
  /\ environment = "nominal"
  /\ enableValidationLayers = TRUE
  /\ pc = "query"
  /\ query \in Queries
  /\ answer = << >>

Call(fn) ==
  /\ pc = "query"
  /\ query.fn = fn
  /\ Len(answer) < MaxCalls

Return(value) ==
  /\ answer' = Append(answer, value)
  /\ UNCHANGED << pc, query, frameVars, what, stderr, startVars, objectVars,
                  steps >>

CallGetUnsupportedExtensions ==
  /\ Call("getUnsupportedExtensions")
  /\ Return(GetUnsupportedExtensions(query.available, query.required))

CallGetUnsupportedLayers ==
  /\ Call("getUnsupportedLayers")
  /\ Return(GetUnsupportedLayers(query.available, query.required))

CallPickSwapchainSurfaceFormat ==
  /\ Call("pickSwapchainSurfaceFormat")
  /\ Return(PickSwapchainSurfaceFormat(query.availableFormats))

CallPickSwapchainPresentMode ==
  /\ Call("pickSwapchainPresentMode")
  /\ Return(PickSwapchainPresentMode(query.availableModes))

CallPickSwapchainExtent ==
  /\ Call("pickSwapchainExtent")
  /\ Return(PickSwapchainExtent(query.surfaceCapabilities))

CallRequestedImageCount ==
  /\ Call("imageCount")
  /\ Return(RequestedImageCount(query.capabilities))

CallQueueCreateInfos ==
  /\ Call("queueCreateInfos")
  /\ Return(QueueCreateInfos(FindQueueFamilies(query.device)))

CallSwapchainSharing ==
  /\ Call("swapchainSharing")
  /\ \E createInfo \in SwapchainSharing(FindQueueFamilies(query.device)) :
       Return(createInfo)

NextQueries ==
  \/ CallGetUnsupportedExtensions
  \/ CallGetUnsupportedLayers
  \/ CallPickSwapchainSurfaceFormat
  \/ CallPickSwapchainPresentMode
  \/ CallPickSwapchainExtent
  \/ CallRequestedImageCount
  \/ CallQueueCreateInfos
  \/ CallSwapchainSharing

SpecQueries == InitQueries /\ [][NextQueries]_vars

\* ------------------------------------------------------------------ claims
Frames == 0 .. FrameLimit

\* frames whose batch is on the graphics queue and has not completed
InFlight == { b.id : b \in submissions }

\* C1: with N <= K, whenever drawFrame is about to reset the fence of the
\* current slot, to pass the slot's image-available semaphore to the acquire
\* or to pass the slot's semaphores and fence to a new submit, no earlier
\* batch submitted with that slot is still uncompleted.
C1_NoReuseBeforeCompletion ==
  MAX_FRAMES_IN_FLIGHT <= K =>
    (pc \in {"resetFence", "acquire", "submit"} =>
       \A b \in submissions : b.slot # m_currentFrame)

\* C1 witness: a slot is used a second time, after its first batch completed
C1_Witness ==
  /\ MAX_FRAMES_IN_FLIGHT <= K
  /\ pc = "submit"
  /\ framesDone >= MAX_FRAMES_IN_FLIGHT
  /\ <<"completed", framesDone - MAX_FRAMES_IN_FLIGHT>> \in gpuLog

\* C2: at most MAX_FRAMES_IN_FLIGHT batches have a fence that has not
\* signalled, and the fence of the current slot is signalled whenever
\* drawFrame is about to reset it.
C2_AtMostNOutstanding ==
  /\ Cardinality(submissions) <= MAX_FRAMES_IN_FLIGHT
  /\ pc = "resetFence" => m_inFlightFences[m_currentFrame]

\* C2 witness: all N slots have a batch in flight
C2_Witness == Cardinality(InFlight) = MAX_FRAMES_IN_FLIGHT

\* C3: the cursor starts at 0, stays inside [0, N) and after n completed
\* iterations is n mod N.
C3_CursorPeriodic ==
  /\ m_currentFrame \in Slots
  /\ m_currentFrame = framesDone % MAX_FRAMES_IN_FLIGHT

\* C3 witness: the cursor has wrapped around and is past 0 again
C3_Witness ==
  /\ framesDone = MAX_FRAMES_IN_FLIGHT + 1
  /\ m_currentFrame = 1

\* C4: in an iteration whose acquire returned an index, the command buffer
\* given to the submit and the image index given to the present are at that
\* acquired index.
C4_AcquiredIndexUsed ==
  acquired # NoImage =>
    /\ pc \in {"present", "advance"} => handed.cmd = acquired
    /\ pc = "advance" => handed.img = acquired

\* C4 witness: an iteration has submitted and presented an acquired index
\* that differs from the frame-slot index
C4_Witness ==
  /\ pc = "advance"
  /\ acquired # NoImage
  /\ acquired # m_currentFrame
  /\ handed = [cmd |-> acquired, img |-> acquired]

\* C5: for every frame, the colour-attachment-output stage of its batch has
\* not started unless the image-available signal of its acquire has
\* happened, and its presentation has not started unless its batch has
\* completed.
C5_ReleaseRenderPresent ==
  \A f \in Frames :
    /\ <<"color", f>> \in gpuLog => <<"released", f>> \in gpuLog
    /\ <<"presentStarted", f>> \in gpuLog => <<"completed", f>> \in gpuLog

\* C5 witness: a frame on a reused slot went through release, render, present
C5_Witness ==
  \E f \in Frames :
    /\ f >= MAX_FRAMES_IN_FLIGHT
    /\ {<<"released", f>>, <<"color", f>>, <<"completed", f>>,
        <<"presentStarted", f>>} \subseteq gpuLog

\* C6: after vkQueueSubmit or vkQueuePresentKHR has returned a non-success
\* code the thread is in the exception path (throw, catch in main, exit with
\* failure) and nowhere else.
C6_FailedCallIsFatal ==
  result = VK_ERROR => pc \in {"catch", "exitFailure"}

\* C7: when sync objects of a slot have been destroyed, vkDeviceWaitIdle has
\* returned before and nothing is pending on the graphics queue or on the
\* present queue.
C7_IdleBeforeDestroy ==
  destroyed # {} => idleWaited /\ DeviceIdle

\* C7 witness: the sync objects are destroyed after frames were submitted
C7_Witness ==
  /\ destroyed = Slots
  /\ framesDone >= MAX_FRAMES_IN_FLIGHT
  /\ \A f \in 0 .. (framesDone - 1) : <<"completed", f>> \in gpuLog

C9_EndToEnd ==
  /\ framesDone = ScenarioFrames =>
       fenceWaits = ScenarioFrames /\ presentCalls = ScenarioFrames
  /\ acquired # NoImage => acquired \in ImageIndices
  /\ \A a, b \in submissions : a # b => a.cmd # b.cmd

\* frames that were handed image i by a submit and whose present request
\* has not given it back yet
Holders(i) ==
  { b.id : b \in { x \in submissions : x.cmd = i } }
    \cup { presentQ[n].id : n \in { m \in DOMAIN presentQ : presentQ[m].img = i } }

\* C10: a batch in its colour-output stage writes an image owned by the
\* command stream, not by the presentation engine, and no image is held by
\* two frames at once.
C10_ExclusiveOwnership ==
  /\ \A b \in submissions :
       b.st = "color" => b.cmd \in ImageIndices /\ Owner(b.cmd) = "commands"
  /\ \A i \in ImageIndices : Cardinality(Holders(i)) <= 1

Terminated == pc \in {"exitSuccess", "exitFailure"}

\* C12: main returns EXIT_SUCCESS exactly when the run ended through the
\* window-close path (loop left, device idle, cleanup done) with nothing
\* thrown; once a start-up or draw-loop step has thrown, control is in the
\* catch block or main has returned EXIT_FAILURE, and it returns EXIT_FAILURE
\* only after e.what() has been written to the error stream.
C12_ExitStatus ==
  /\ pc = "exitSuccess" <=>
       (Terminated /\ idleWaited /\ destroyed = Slots /\ what = NoException)
  /\ what # NoException => pc \in {"catch", "exitFailure"}
  /\ pc = "exitFailure" => what # NoException /\ stderr = << what >>
  /\ pc = "exitSuccess" => stderr = << >>

C12_Witness ==
  /\ pc = "exitFailure"
  /\ what = << "Failed to submit draw command buffer!" >>
  /\ stderr = << what >>

\* a device that offers all five things pickPhysicalDevice asks for
OffersAll(offer) ==
  /\ offer.swapchainExtension
  /\ offer.formats
  /\ offer.presentModes
  /\ offer.graphics
  /\ offer.present

PickReturned ==
  /\ locals.fn = "pickPhysicalDevice"
  /\ locals.size > 0
  /\ pc \in {"createLogicalDevice", "catch", "exitFailure"}

\* C18: when pickPhysicalDevice is over, either it selected the first
\* enumerated device that offers the swapchain extension, a surface format,
\* a present mode, a graphics family and a present family (every device
\* before it lacks one of the five), or no enumerated device offers all five
\* and it threw "Failed to find a suitable GPU!" with no device selected.
C18_FirstSuitableOrError ==
  PickReturned =>
    IF \E k \in 1 .. Len(locals.examined) : OffersAll(locals.examined[k])
    THEN /\ pc = "createLogicalDevice"
         /\ m_physicalDevice = Len(locals.examined)
         /\ OffersAll(locals.examined[m_physicalDevice])
         /\ \A k \in 1 .. m_physicalDevice - 1 : ~OffersAll(locals.examined[k])
    ELSE /\ Len(locals.examined) = locals.size
         /\ pc \in {"catch", "exitFailure"}
         /\ what = << "Failed to find a suitable GPU!" >>
         /\ m_physicalDevice \notin 1 .. locals.size

MissingFrom(available, required) ==
  \E i \in 1 .. Len(required) :
     \A j \in 1 .. Len(available) : available[j] # required[i]

SupportMissing ==
  /\ locals.fn = "createInstance"
  /\ \/ MissingFrom(locals.availableLayers, locals.requiredLayers)
     \/ MissingFrom(locals.availableExtensions, locals.requiredExtensions)

ConfigurationErrors ==
  { "Validation layers requested but are not available: ",
    "Extensions requested but are not available: " }

\* C19: when a required instance layer or instance extension is not in the
\* available list, createInstance throws the "requested but are not
\* available" error without having called vkCreateInstance (no instance
\* exists), and the exception is in main's catch block or main has returned
\* EXIT_FAILURE: nothing retries the call.
C19_MissingSupportIsFatal ==
  SupportMissing =>
    /\ locals.vkCreateInstanceCalls = 0
    /\ m_instance = NullHandle
    /\ pc \in {"catch", "exitFailure"}
    /\ Len(what) > 1
    /\ what[1] \in ConfigurationErrors

C19_Witness ==
  /\ SupportMissing
  /\ ~MissingFrom(locals.availableLayers, locals.requiredLayers)
  /\ locals.requiredExtensions = << "VK_KHR_surface", VK_EXT_DEBUG_UTILS_EXTENSION_NAME >>
  /\ what = << "Extensions requested but are not available: ",
               VK_EXT_DEBUG_UTILS_EXTENSION_NAME >>
  /\ pc = "exitFailure"

Answered(fn) ==
  /\ pc = "query"
  /\ query.fn = fn
  /\ Len(answer) > 0

UnsupportedAnswered ==
  Answered("getUnsupportedExtensions") \/ Answered("getUnsupportedLayers")

ExactMatch(available, name) ==
  \E j \in 1 .. Len(available) : available[j] = name

\* C13: getUnsupportedExtensions and getUnsupportedLayers return the empty
\* sequence exactly when every required name has a case-sensitive exact
\* match in the available sequence, and every further call with the same
\* arguments returns what the first call returned.
C13_EmptyIffAllMatched ==
  UnsupportedAnswered =>
    \A n \in 1 .. Len(answer) :
       /\ (answer[n] = << >>) <=>
            (\A i \in 1 .. Len(query.required) :
                ExactMatch(query.available, query.required[i]))
       /\ answer[n] = answer[1]

C13_Witness ==
  /\ Answered("getUnsupportedExtensions")
  /\ query.required = << "VK_KHR_surface", VK_EXT_DEBUG_UTILS_EXTENSION_NAME >>
  /\ query.available = << VK_EXT_DEBUG_UTILS_EXTENSION_NAME, "VK_KHR_surface" >>
  /\ answer = << << >>, << >> >>

\* a name with its letters in lower case
ToLower(name) ==
  IF name = "VK_KHR_surface" THEN "vk_khr_surface"
  ELSE IF name = VK_LAYER_KHRONOS_validation THEN "vk_layer_khronos_validation"
  ELSE IF name = VK_EXT_DEBUG_UTILS_EXTENSION_NAME THEN "vk_ext_debug_utils"
  ELSE name

CaseInsensitiveMatch(available, name) ==
  \E j \in 1 .. Len(available) : ToLower(available[j]) = ToLower(name)

\* C14 as stated: the result is the required names without a
\* case-insensitive match in the available sequence, in the order of the
\* required sequence.
C14_CaseInsensitiveDifference ==
  UnsupportedAnswered =>
    \A n \in 1 .. Len(answer) :
       answer[n] = SelectSeq(query.required,
                     LAMBDA name : ~CaseInsensitiveMatch(query.available, name))

\* C14: the result is the required names without a case-sensitive exact
\* match (strcmp) in the available sequence, each as often as it is
\* required, and no other name, in the order of the required sequence.
C14_ExactDifference ==
  UnsupportedAnswered =>
    \A n \in 1 .. Len(answer) :
       answer[n] = SelectSeq(query.required,
                     LAMBDA name : ~ExactMatch(query.available, name))

C14_Witness ==
  /\ Answered("getUnsupportedLayers")
  /\ query.required = << "vk_layer_khronos_validation", VK_LAYER_KHRONOS_validation >>
  /\ query.available = << VK_LAYER_KHRONOS_validation >>
  /\ answer[1] = << "vk_layer_khronos_validation" >>

IsPreferredFormat(surfaceFormat) ==
  /\ surfaceFormat.format = VK_FORMAT_B8G8R8A8_SRGB
  /\ surfaceFormat.colorSpace = VK_COLOR_SPACE_SRGB_NONLINEAR_KHR

\* C15: for a non-empty list of surface formats, pickSwapchainSurfaceFormat
\* returns the B8G8R8A8_SRGB / SRGB_NONLINEAR entry when the list has one at
\* any position, and the first entry of the list when it has none.
C15_PreferredFormatOrFirst ==
  Answered("pickSwapchainSurfaceFormat") =>
    \A n \in 1 .. Len(answer) :
       IF \E i \in 1 .. Len(query.availableFormats) :
             IsPreferredFormat(query.availableFormats[i])
       THEN IsPreferredFormat(answer[n])
       ELSE answer[n] = query.availableFormats[1]

C15_Witness ==
  /\ Answered("pickSwapchainSurfaceFormat")
  /\ Len(query.availableFormats) = 2
  /\ ~IsPreferredFormat(query.availableFormats[1])
  /\ IsPreferredFormat(query.availableFormats[2])
  /\ answer[1] = query.availableFormats[2]

Clamped(x, lo, hi) == IF x < lo THEN lo ELSE IF x > hi THEN hi ELSE x

\* C16: with the "driver chooses" current extent, pickSwapchainExtent
\* returns (WIDTH, HEIGHT) with each component clamped into
\* [minImageExtent, maxImageExtent], so unchanged when inside the bounds;
\* with any other current extent it returns that extent unchanged.
C16_ExtentClampedOrCurrent ==
  Answered("pickSwapchainExtent") =>
    \A n \in 1 .. Len(answer) :
       LET caps == query.surfaceCapabilities
       IN  IF caps.currentExtent = DriverChooses
           THEN /\ answer[n].width =
                     Clamped(WIDTH, caps.minImageExtent.width,
                             caps.maxImageExtent.width)
                /\ answer[n].height =
                     Clamped(HEIGHT, caps.minImageExtent.height,
                             caps.maxImageExtent.height)
                /\ Within(VkExtent2D(WIDTH, HEIGHT), caps.minImageExtent,
                          caps.maxImageExtent)
                     => answer[n] = VkExtent2D(WIDTH, HEIGHT)
           ELSE answer[n] = caps.currentExtent

C16_Witness ==
  /\ Answered("pickSwapchainExtent")
  /\ query.surfaceCapabilities.currentExtent = DriverChooses
  /\ query.surfaceCapabilities.minImageExtent.width > WIDTH
  /\ query.surfaceCapabilities.maxImageExtent.height < HEIGHT
  /\ answer[1] = VkExtent2D(query.surfaceCapabilities.minImageExtent.width,
                            query.surfaceCapabilities.maxImageExtent.height)

\* C17: the image count createSwapchain requests is minImageCount + 1 when
\* maxImageCount is 0 and the smaller of minImageCount + 1 and maxImageCount
\* otherwise: (2, 0) gives 3, (2, 2) gives 2, and the count is never above a
\* non-zero maxImageCount.
C17_RequestedImageCount ==
  Answered("imageCount") =>
    \A n \in 1 .. Len(answer) :
       LET caps == query.capabilities
       IN  /\ caps.maxImageCount = 0 => answer[n] = caps.minImageCount + 1
           /\ caps.maxImageCount # 0 =>
                /\ answer[n] <= caps.maxImageCount
                /\ answer[n] <= caps.minImageCount + 1
                /\ answer[n] \in { caps.minImageCount + 1, caps.maxImageCount }
           /\ caps = [minImageCount |-> 2, maxImageCount |-> 0] => answer[n] = 3
           /\ caps = [minImageCount |-> 2, maxImageCount |-> 2] => answer[n] = 2

C17_Witness ==
  /\ Answered("imageCount")
  /\ query.capabilities = [minImageCount |-> 2, maxImageCount |-> 2]
  /\ answer[1] = 2

\* C20: pickSwapchainPresentMode returns MAILBOX when the list of available
\* present modes contains it and FIFO when it does not, and no other mode.
C20_MailboxOrFifo ==
  Answered("pickSwapchainPresentMode") =>
    \A n \in 1 .. Len(answer) :
       answer[n] =
         IF \E i \in 1 .. Len(query.availableModes) :
               query.availableModes[i] = VK_PRESENT_MODE_MAILBOX_KHR
         THEN VK_PRESENT_MODE_MAILBOX_KHR
         ELSE VK_PRESENT_MODE_FIFO_KHR

C20_Witness ==
  /\ Answered("pickSwapchainPresentMode")
  /\ query.availableModes =
       << VK_PRESENT_MODE_IMMEDIATE_KHR, VK_PRESENT_MODE_MAILBOX_KHR >>
  /\ answer[1] = VK_PRESENT_MODE_MAILBOX_KHR

\* the calls of drawFrame, mainLoop and cleanup returning VK_SUCCESS
CallReturns ==
  \/ MainLoop
  \/ WaitForFences
  \/ ResetFences
  \/ AcquireNextImage
  \/ QueueSubmit
  \/ QueuePresent
  \/ AdvanceFrame
  \/ DeviceWaitIdle
  \/ Cleanup

\* the CPU is inside a call that cannot return yet
Blocked ==
  /\ pc \in {"mainLoop", "waitFence", "resetFence", "acquire", "submit",
             "present", "advance", "waitIdle", "cleanup"}
  /\ ~ENABLED CallReturns

\* C11 as stated: the CPU can be blocked only in the fence wait of drawFrame
\* and in the device-idle wait at shutdown.
C11_OnlyFenceAndIdleBlock ==
  Blocked => pc \in {"waitFence", "waitIdle"}

\* C11: the CPU can be blocked only in the fence wait of drawFrame, in
\* vkAcquireNextImageKHR (timeout UINT64_MAX) while no image is acquirable,
\* and in the device-idle wait at shutdown; reset, submit and present return
\* without waiting.
C11_FenceAcquireAndIdleBlock ==
  Blocked => pc \in {"waitFence", "acquire", "waitIdle"}

C11_Witness ==
  /\ pc = "acquire"
  /\ Blocked
  /\ K >= MAX_FRAMES_IN_FLIGHT
  /\ \A i \in ImageIndices : ImageState(i) # "free"

\* C21: the swapchain create info asks for exclusive ownership exactly when
\* the graphics and the present family index are equal, and otherwise for
\* concurrent sharing between exactly those two family indices.
C21_SharingMode ==
  Answered("swapchainSharing") =>
    \A n \in 1 .. Len(answer) :
       LET indices == FindQueueFamilies(query.device)
       IN  IF indices.graphicsFamily = indices.presentFamily
           THEN answer[n].imageSharingMode = VK_SHARING_MODE_EXCLUSIVE
           ELSE /\ answer[n].imageSharingMode = VK_SHARING_MODE_CONCURRENT
                /\ answer[n].queueFamilyIndexCount = 2
                /\ answer[n].pQueueFamilyIndices =
                     << indices.graphicsFamily, indices.presentFamily >>

\* C24: createLogicalDevice asks for one queue of each distinct family among
\* the graphics and the present family: one request when they are the same
\* family, two requests with different families when they differ, never two
\* requests for one family.
C24_OneQueuePerDistinctFamily ==
  Answered("queueCreateInfos") =>
    \A n \in 1 .. Len(answer) :
       LET indices == FindQueueFamilies(query.device)
           infos == answer[n]
       IN  /\ Len(infos) =
                IF indices.graphicsFamily = indices.presentFamily THEN 1 ELSE 2
           /\ { infos[k].queueFamilyIndex : k \in 1 .. Len(infos) } =
                { indices.graphicsFamily, indices.presentFamily }
           /\ \A k \in 1 .. Len(infos) : infos[k].queueCount = 1
           /\ \A k, l \in 1 .. Len(infos) :
                 k # l => infos[k].queueFamilyIndex # infos[l].queueFamilyIndex

C24_Witness ==
  /\ Answered("queueCreateInfos")
  /\ FindQueueFamilies(query.device) = QueueFamilyIndices(0, 1)
  /\ Len(answer[1]) = 2
  /\ answer[1][1].queueFamilyIndex = 0
  /\ answer[1][2].queueFamilyIndex = 1

\* the calls of one drawFrame iteration, in program order
IterationCalls ==
  << "drawFrame", "vkWaitForFences", "vkResetFences", "vkAcquireNextImageKHR",
     "vkQueueSubmit", "vkQueuePresentKHR", "advance" >>

\* how many of them have been made when the CPU is at a position of drawFrame
CallsMadeAt ==
  [p \in {"waitFence", "resetFence", "acquire", "submit", "present", "advance"} |->
     CASE p = "waitFence" -> 1
       [] p = "resetFence" -> 2
       [] p = "acquire" -> 3
       [] p = "submit" -> 4
       [] p = "present" -> 5
       [] p = "advance" -> 6]

\* C22: the calls of an iteration are, once each and in this order, fence
\* wait, fence reset, acquire, submit, present, cursor advance; a completed
\* iteration has made all of them, and every sync object any of them was
\* given belongs to the slot the cursor selected when the iteration began.
C22_IterationProtocol ==
  /\ Len(steps) <= Len(IterationCalls)
  /\ \A n \in 1 .. Len(steps) :
        /\ steps[n].call = IterationCalls[n]
        /\ steps[n].slots = steps[1].slots
  /\ pc \in DOMAIN CallsMadeAt => Len(steps) = CallsMadeAt[pc]
  /\ (pc = "mainLoop" /\ framesDone > 0) =>
        /\ Len(steps) = Len(IterationCalls)
        /\ m_currentFrame = NextFrame(CHOOSE s \in steps[1].slots : TRUE)
  /\ Len(steps) > 0 => Cardinality(steps[1].slots) = 1

C22_Witness ==
  /\ pc = "mainLoop"
  /\ framesDone = 2
  /\ Len(steps) = Len(IterationCalls)
  /\ steps[1].slots = { 1 }
  /\ steps[5] = Step("vkQueueSubmit", { 1 })

Called(fn) == \E n \in 1 .. Len(ran) : ran[n] = fn

\* how many objects of a kind a sequence of objects names
CountOf(kind, objects) ==
  Cardinality({ n \in 1 .. Len(objects) : objects[n][1] = kind })

\* C25: once initVulkan has returned there are K image views, K
\* framebuffers and K command buffers; command buffer i is recorded against
\* framebuffer i, framebuffer i has view i attached, view i views image i;
\* and every command buffer has been recorded exactly once, however many
\* iterations of the main loop have run.
C25_OnePerImageRecordedOnce ==
  Called("mainLoop") =>
    /\ Len(m_swapchainImageViews) = K
    /\ Len(m_swapchainFramebuffers) = K
    /\ Len(m_commandBuffers) = K
    /\ CountOf("imageView", created) = K
    /\ CountOf("framebuffer", created) = K
    /\ CountOf("commandBuffer", created) = K
    /\ \A i \in 1 .. K :
          /\ m_commandBuffers[i].framebuffer = i - 1
          /\ m_swapchainFramebuffers[i] = i - 1
          /\ m_swapchainImageViews[i] = i - 1
          /\ m_commandBuffers[i].recordings = 1

C25_Witness ==
  /\ Called("mainLoop")
  /\ K = 3
  /\ framesDone = 2
  /\ pc = "submit"
  /\ m_commandBuffers[K] = [framebuffer |-> K - 1, recordings |-> 1]

\* the calls of run() and initVulkan() in program order
RunOrder ==
  << "initWindow", "createInstance", "setupDebugMessenger", "createSurface",
     "pickPhysicalDevice", "createLogicalDevice", "createSwapchain",
     "createImageViews", "createRenderPass", "createGraphicsPipeline",
     "createFramebuffers", "createCommandPool", "createCommandBuffers",
     "createSyncObjects", "mainLoop", "cleanup" >>

\* what a step of initVulkan has to leave behind to have succeeded
Succeeded(fn) ==
  CASE fn = "createInstance" -> CountOf("instance", created) = 1
    [] fn = "setupDebugMessenger" ->
         CountOf("debugMessenger", created) =
           (IF enableValidationLayers THEN 1 ELSE 0)
    [] fn = "createSurface" -> CountOf("surface", created) = 1
    [] fn = "pickPhysicalDevice" -> m_physicalDevice \in 1 .. MaxDevices
    [] fn = "createLogicalDevice" -> CountOf("device", created) = 1
    [] fn = "createSwapchain" -> CountOf("swapchain", created) = 1 /\ K > 0
    [] fn = "createImageViews" -> CountOf("imageView", created) = K
    [] fn = "createRenderPass" -> CountOf("renderPass", created) = 1
    [] fn = "createGraphicsPipeline" -> CountOf("pipeline", created) = 1
    [] fn = "createFramebuffers" -> CountOf("framebuffer", created) = K
    [] fn = "createCommandPool" -> CountOf("commandPool", created) = 1
    [] fn = "createCommandBuffers" ->
         \A i \in 1 .. K : m_commandBuffers[i].recordings = 1
    [] fn = "createSyncObjects" ->
         CountOf("fence", created) = MAX_FRAMES_IN_FLIGHT
    [] OTHER -> TRUE

InitFailed == what # NoException /\ ~Called("mainLoop")

\* C23: run() and initVulkan() call their steps once each in program order,
\* a step is called only when every step before it has succeeded (left its
\* object behind: an instance, ..., a selected device, ..., the fences), and
\* when a step of initVulkan throws, no later step, no main loop and no
\* cleanup runs and nothing is destroyed (but for the two shader modules
\* createGraphicsPipeline itself destroyed before it returned).
C23_SequentialNoBacktracking ==
  /\ Len(ran) <= Len(RunOrder)
  /\ \A n \in 1 .. Len(ran) : ran[n] = RunOrder[n]
  /\ \A n \in 1 .. Len(ran) - 1 : Succeeded(ran[n])
  /\ InitFailed =>
       /\ pc \in {"catch", "exitFailure"}
       /\ ~Called("cleanup")
       /\ steps = << >>
       /\ framesDone = 0
       /\ ~idleWaited
       /\ destroyed = {}
       /\ destroyedObjects =
            IF Called("createFramebuffers") THEN ShaderModules ELSE << >>

\* how often an object occurs in a sequence of objects
Occurrences(object, objects) ==
  Cardinality({ n \in 1 .. Len(objects) : objects[n] = object })

\* position of the destruction of the one object destroyed at that position
DestroyedAt(object) ==
  CHOOSE n \in 1 .. Len(destroyedObjects) : destroyedObjects[n] = object

\* kinds of objects created through a VkDevice
DeviceObjectKinds ==
  { "imageAvailable", "renderFinished", "fence", "commandBuffer",
    "commandPool", "pipeline", "pipelineLayout", "framebuffer", "renderPass",
    "imageView", "swapchain" }

\* child kind -> the kinds of the objects it was created from and refers to
CreatedFrom ==
  [kind \in DeviceObjectKinds \cup { "device", "surface", "debugMessenger" } |->
     CASE kind = "commandBuffer" -> { "commandPool", "device" }
       [] kind = "pipeline" -> { "pipelineLayout", "renderPass", "device" }
       [] kind = "framebuffer" -> { "renderPass", "imageView", "device" }
       [] kind = "imageView" -> { "swapchain", "device" }
       [] kind = "swapchain" -> { "surface", "device" }
       [] kind = "device" -> { "instance" }
       [] kind = "surface" -> { "instance", "window" }
       [] kind = "debugMessenger" -> { "instance" }
       [] OTHER -> { "device" }]

\* C30: when main returns EXIT_SUCCESS every object that was created has
\* been destroyed exactly once and nothing else has; no object was
\* destroyed before an object created from it; every object created through
\* the device was destroyed before the device; the device, the surface and
\* the debug messenger before the instance; and the window last.
C30_CleanupOrder ==
  pc = "exitSuccess" =>
    /\ Len(destroyedObjects) = Len(created)
    /\ \A n \in 1 .. Len(created) :
          /\ Occurrences(created[n], created) = 1
          /\ Occurrences(created[n], destroyedObjects) = 1
    /\ \A c, p \in 1 .. Len(destroyedObjects) :
          LET child == destroyedObjects[c]
              parent == destroyedObjects[p]
          IN  (/\ child[1] \in DOMAIN CreatedFrom
               /\ parent[1] \in CreatedFrom[child[1]]) => c < p
    /\ \A n \in 1 .. Len(destroyedObjects) :
          destroyedObjects[n][1] \in DeviceObjectKinds =>
             n < DestroyedAt(Object("device", 0))
    /\ DestroyedAt(Object("device", 0)) < DestroyedAt(Object("instance", 0))
    /\ DestroyedAt(Object("surface", 0)) < DestroyedAt(Object("instance", 0))
    /\ enableValidationLayers =>
          DestroyedAt(Object("debugMessenger", 0)) < DestroyedAt(Object("instance", 0))
    /\ DestroyedAt(Object("window", 0)) = Len(destroyedObjects)

C30_Witness ==
  /\ pc = "exitSuccess"
  /\ enableValidationLayers
  /\ K = 3
  /\ framesDone = 1
  /\ Occurrences(Object("debugMessenger", 0), destroyedObjects) = 1
  /\ Occurrences(Object("framebuffer", 2), destroyedObjects) = 1
  /\ destroyedObjects[Len(destroyedObjects)] = Object("window", 0)

\* C28: in every drawFrame iteration, whether or not its acquire call
\* succeeded, the command buffer given to the submit and the image index
\* given to the present are at an index in 0 .. K - 1 that the acquire call
\* of that iteration returned.
C28_IndexFromAcquire ==
  /\ pc \in {"present", "advance"} =>
       handed.cmd \in ImageIndices /\ handed.cmd = acquired
  /\ pc = "advance" =>
       handed.img \in ImageIndices /\ handed.img = acquired

\* C26: the fence wait at the top of an iteration looks at the fence of the
\* current slot only: it returns whenever no batch submitted with the
\* current slot is uncompleted, whatever batches of the other slots are
\* still on the graphics queue, so that batches of different slots are in
\* flight together.
C26_SlotsOverlap ==
  (/\ pc = "waitFence"
   /\ \A b \in submissions : b.slot # m_currentFrame)
    => ENABLED WaitForFences

\* C26 witness: with N >= 2 and K >= N the batches of two different slots
\* are both executing, and the CPU is inside the iteration of the later one
C26_Witness ==
  /\ MAX_FRAMES_IN_FLIGHT >= 2
  /\ K >= MAX_FRAMES_IN_FLIGHT
  /\ pc = "present"
  /\ \E a, b \in submissions :
       /\ a.slot # b.slot
       /\ b.slot = m_currentFrame
       /\ a.st = "color"
       /\ b.st = "color"

\* the render-finished semaphore drawFrame is about to give to vkQueueSubmit
\* as signal semaphore carries no signal and no queued present request
\* still has to wait on it
RenderFinishedFree ==
  pc = "submit" =>
    /\ ~m_renderFinishedSemaphores[SubmitSignalSemaphore(m_currentFrame)]
    /\ \A n \in DOMAIN presentQ :
          presentQ[n].wait # SubmitSignalSemaphore(m_currentFrame)

\* the image-available semaphore drawFrame is about to give to
\* vkAcquireNextImageKHR carries no signal, delivered or still to come
ImageAvailableFree ==
  pc = "acquire" =>
    m_imageAvailableSemaphores[AcquireSemaphore(m_currentFrame)].st = "unsignaled"

\* C29: a slot's render-finished semaphore is not given to a new submit while
\* the present request waiting on its previous signal has not consumed that
\* signal, and a slot's image-available semaphore is not given to a new
\* acquire while a previous signal on it is unconsumed.
C29_SemaphoresConsumedBeforeReuse ==
  /\ RenderFinishedFree
  /\ ImageAvailableFree

\* ------------------------------------------------------------------ progress
\* the steps of the one CPU thread: start-up, main loop, clean-up, catch
CpuStep ==
  \/ InitWindow
  \/ CreateInstance
  \/ SetupDebugMessenger
  \/ CreateSurface
  \/ PickPhysicalDevice
  \/ ExamineDevice
  \/ CheckPicked
  \/ CreateLogicalDevice
  \/ CreateSwapchain
  \/ CreateImageViews
  \/ CreateRenderPass
  \/ CreateGraphicsPipeline
  \/ CreateFramebuffers
  \/ CreateCommandPool
  \/ CreateCommandBuffers
  \/ CreateSyncObjects
  \/ MainLoop
  \/ WaitForFences
  \/ ResetFences
  \/ AcquireNextImage
  \/ AcquireNextImageFails
  \/ QueueSubmit
  \/ QueueSubmitFails
  \/ QueuePresent
  \/ AdvanceFrame
  \/ DeviceWaitIdle
  \/ Cleanup
  \/ Catch

\* The thread keeps running; the presentation engine signals the semaphore
\* of every acquire and releases every presented image; the queues execute
\* every batch and every present request whose semaphore wait is satisfied.
Fairness ==
  /\ WF_vars(CpuStep)
  /\ \A s \in Slots : WF_vars(SignalImageAvailable(s))
  /\ WF_vars(\E b \in submissions : BeginColorOutput(b))
  /\ WF_vars(\E b \in submissions : CompleteSubmission(b))
  /\ WF_vars(ExecutePresent)
  /\ WF_vars(\E i \in ImageIndices : ReleaseImage(i))

SpecLive == Init /\ [][Next]_vars /\ Fairness

\* positions of the CPU inside drawFrame
InDrawFrame ==
  pc \in {"waitFence", "resetFence", "acquire", "submit", "present", "advance"}

\* a batch submitted with slot s is on the graphics queue, uncompleted
Submitted(s) == \E b \in submissions : b.slot = s

\* the first wait on each slot finds the fence signalled although no batch
\* was submitted with the slot
FirstWaitReturns ==
  (pc = "waitFence" /\ framesDone < MAX_FRAMES_IN_FLIGHT) =>
     /\ ~Submitted(m_currentFrame)
     /\ ENABLED WaitForFences

\* C27: the first fence wait on each slot returns at once; every fence wait
\* of drawFrame eventually returns; every slot that is Submitted eventually
\* becomes Idle again; every drawFrame call eventually ends (returns or
\* throws), the loop does not deadlock.
C27_FrameLoopProgress ==
  /\ []FirstWaitReturns
  /\ (pc = "waitFence") ~> (pc # "waitFence")
  /\ \A s \in Slots : Submitted(s) ~> ~Submitted(s)
  /\ InDrawFrame ~> ~InDrawFrame

====
